---- MODULE Spec2Model ----
(***************************************************************************)
(* A model of ommprotocol/io.py: the extension-dispatching loaders         *)
(* (MultiFormatLoader and its five families), the validated container      *)
(* (InputContainer), SystemHandler.create_system, BoxVectors.from_xsc and  *)
(* the helper assert_not_exists.                                           *)
(*                                                                         *)
(* Python strings are sequences of one-character strings, Python objects   *)
(* are records carrying their type name and the attributes set on them,    *)
(* and the outcome of a call is a record holding either the value returned *)
(* or the exception raised.                                                *)
(***************************************************************************)
EXTENDS Integers, Sequences, FiniteSets, TLC

VARIABLES
    obj,        \* the container the caller holds (NoObj before the first one)
    call,       \* the last call made and how it ended
    xsc,        \* BoxVectors.from_xsc: the file's lines and the call's outcome
    files,      \* assert_not_exists: the paths that exist on the file system
    arg,        \* assert_not_exists: the path it was called with
    path,       \* assert_not_exists: local `path`
    name,       \* assert_not_exists: local `name`
    ext,        \* assert_not_exists: local `ext`
    i,          \* assert_not_exists: local `i`
    pc          \* assert_not_exists: position in the function

vars == <<obj, call, xsc, files, arg, path, name, ext, i, pc>>

-----------------------------------------------------------------------------
(* Bounds of the model.                                                    *)

\* assert_not_exists: how many numbered candidates may already exist.
MaxCounter == 4

\* from_xsc: the longest header (and value line) of a record, in tokens.
MaxFields == 4

-----------------------------------------------------------------------------
(* Python values.                                                          *)

PyObj(t, attrs) == [type |-> t, attrs |-> attrs]

PyNone == PyObj("NoneType", {})

\* What a call that raised hands back: nothing.
NoValue == PyObj("<nothing>", {})

\* No container has been obtained yet.
NoObj == PyObj("<unbound>", {})

TopologyObj == PyObj("Topology", {})
QuantityObj == PyObj("Quantity", {})
StrObj == PyObj("str", {})

Return(v) == [exc |-> "none", msg |-> <<>>, val |-> v]
Raise(e, m) == [exc |-> e, msg |-> m, val |-> NoValue]

\* The names that denote classes; None is an object, not a class.
PyTypes == {"Topology", "Quantity", "str", "NoneType", "PDBFile",
            "AmberPrmtopFile", "CharmmPsfFile", "dict"}

\* isinstance(object_, classinfo) for a tuple classinfo: the entries are tried
\* in order; a matching class answers True at once, an entry that is not a
\* class (such as None) makes isinstance itself raise TypeError.
IsInstance(object_, classinfo) ==
    LET stops == {k \in DOMAIN classinfo :
                     classinfo[k] \notin PyTypes \/ object_.type = classinfo[k]}
    IN IF stops = {} THEN "False"
       ELSE LET first == CHOOSE k \in stops : \A j \in stops : k <= j IN
            IF classinfo[first] \notin PyTypes THEN "TypeError" ELSE "True"

validate(object_, type_) ==
    LET r == IsInstance(object_, type_) IN
    IF r = "TypeError"
    THEN Raise("TypeError", <<"isinstance() arg 2 must be a type or tuple of types">>)
    ELSE IF r = "True" THEN Return(object_)
    ELSE Raise("TypeError", <<"must be instance of", object_.type>>)

-----------------------------------------------------------------------------
(* InputContainer.                                                         *)

Fields == <<"topology", "positions", "velocities", "box">>

\* The classinfo each property setter hands to validate.
FieldTypes ==
    [topology |-> <<"Topology", "None">>,
     positions |-> <<"Quantity", "None">>,
     velocities |-> <<"Quantity", "None">>,
     box |-> <<"Quantity", "None">>]

\* What a property setter does with validate's outcome r: the value is stored,
\* or the exception passes through and the object stays as it was.
Stored(self, f, r) ==
    IF r.exc = "none"
    THEN [exc |-> "none", msg |-> <<>>, self |-> [self EXCEPT ![f] = r.val]]
    ELSE [exc |-> r.exc, msg |-> r.msg, self |-> self]

\* A property setter: self._<f> = validate(value, ...).  The outcome and the
\* object as the setter leaves it.
SetField(self, f, value) == Stored(self, f, validate(value, FieldTypes[f]))

\* The next assignment of __init__, made only if none before it raised.
Then(r, f, value) == IF r.exc = "none" THEN SetField(r.self, f, value) ELSE r

\* InputContainer.__init__(self, topology, positions, velocities, box): the
\* outcome and self as __init__ leaves it (partly set when a setter raised).
InputContainer_init(self, kw) ==
    LET self0 == [self EXCEPT !.topology = PyNone, !.positions = PyNone,
                              !.velocities = PyNone, !.box = PyNone]
        r1 == SetField(self0, "topology", kw.topology)
        r2 == Then(r1, "positions", kw.positions)
        r3 == Then(r2, "velocities", kw.velocities)
    IN Then(r3, "box", kw.box)

\* self.master = master, once InputContainer.__init__ returned.
WithMaster(r, master) ==
    IF r.exc = "none"
    THEN [r EXCEPT !.self = [r.self EXCEPT !.master = master]]
    ELSE r

\* SystemHandler.__init__(self, master, **kwargs).
SystemHandler_init(self, master, kw) == WithMaster(InputContainer_init(self, kw), master)

\* An object fresh from __new__, before __init__ ran.
Blank(cls) ==
    [cls |-> cls, master |-> NoValue, topology |-> NoValue,
     positions |-> NoValue, velocities |-> NoValue, box |-> NoValue]

\* The __init__ the class cls resolves to.
ClassInit(cls, self, master, kw) ==
    IF cls = "SystemHandler"
    THEN SystemHandler_init(self, master, kw)
    ELSE InputContainer_init(self, kw)

\* A constructor call that hands the caller the object even when __init__ raised.
Built_LeakPartial(r) == [exc |-> r.exc, msg |-> r.msg, val |-> r.self]

\* What a constructor call gives the caller once __init__ ended as r: the
\* object when __init__ returned, the exception and no object when it raised.
Built(r) == IF r.exc = "none" THEN Return(r.self) ELSE Raise(r.exc, r.msg)

\* cls(master=..., topology=..., positions=..., velocities=..., box=...)
New(cls, master, kw) == Built(ClassInit(cls, Blank(cls), master, kw))

Kw(t, p, v, b) == [topology |-> t, positions |-> p, velocities |-> v, box |-> b]

-----------------------------------------------------------------------------
(* SystemHandler.create_system.                                            *)

Unusable == <<"This instance is not able to create systems.">>
NoForcefield == <<"PDB topology files must be instanciated with forcefield paths.">>
NoParmset == <<"PSF topology files must be instanciated with Charmm parameters.">>

\* The system an attached context creates, named by the context that made it.
System(by) == [type |-> "System", attrs |-> {}, by |-> by]

\* A create_system without the guard on a missing master.
create_system_NoMasterGuard(self) ==
    IF self.master.type = "PDBFile"
    THEN IF "forcefield" \notin self.master.attrs
         THEN Raise("ValueError", NoForcefield)
         ELSE Return(System("master.forcefield.createSystem"))
    ELSE IF self.master.type = "AmberPrmtopFile"
    THEN Return(System("master.createSystem"))
    ELSE IF self.master.type = "CharmmPsfFile"
    THEN IF "parmset" \notin self.master.attrs
         THEN Raise("ValueError", NoParmset)
         ELSE Return(System("master.createSystem(parmset)"))
    ELSE Return(PyNone)

create_system(self) ==
    IF self.master = PyNone
    THEN Raise("ValueError", Unusable)
    ELSE IF self.master.type = "PDBFile"
    THEN IF "forcefield" \notin self.master.attrs
         THEN Raise("ValueError", NoForcefield)
         ELSE Return(System("master.forcefield.createSystem"))
    ELSE IF self.master.type = "AmberPrmtopFile"
    THEN Return(System("master.createSystem"))
    ELSE IF self.master.type = "CharmmPsfFile"
    THEN IF "parmset" \notin self.master.attrs
         THEN Raise("ValueError", NoParmset)
         ELSE Return(System("master.createSystem(parmset)"))
    ELSE Return(PyNone)

-----------------------------------------------------------------------------
(* Python strings: sequences of characters.                                *)

Max(S) == CHOOSE x \in S : \A y \in S : y <= x

\* s.rfind(c), counting positions from 1; 0 when c does not occur.
RFind(s, c) == Max({0} \cup {k \in DOMAIN s : s[k] = c})

\* os.path.splitext(p): the extension starts at the last dot of the last path
\* component, unless only dots precede it there.
splitext(p) ==
    LET sepIndex == RFind(p, "/")
        dotIndex == RFind(p, ".")
    IN IF /\ dotIndex > sepIndex
          /\ \E k \in (sepIndex + 1)..(dotIndex - 1) : p[k] # "."
       THEN <<SubSeq(p, 1, dotIndex - 1), SubSeq(p, dotIndex, Len(p))>>
       ELSE <<p, <<>>>>

\* s.lstrip(chars)
RECURSIVE LStrip(_, _)
LStrip(s, chars) ==
    IF s # <<>> /\ Head(s) \in chars THEN LStrip(Tail(s), chars) ELSE s

UpperToLower ==
    [c \in {"P", "D", "B", "X", "S", "C"} |->
        CASE c = "P" -> "p" [] c = "D" -> "d" [] c = "B" -> "b"
          [] c = "X" -> "x" [] c = "S" -> "s" [] c = "C" -> "c"]

\* s.lower()
Lower(s) ==
    [k \in DOMAIN s |-> IF s[k] \in DOMAIN UpperToLower THEN UpperToLower[s[k]] ELSE s[k]]

\* The methods a str object has (those that matter here); lsplit is not one.
StrMethods == {"lstrip", "rstrip", "strip", "split", "rsplit", "lower", "upper",
               "splitlines", "startswith", "endswith", "format", "join"}

\* s.<method>(a): AttributeError when str has no such method.
StrCall(s, method, a) ==
    IF method \notin StrMethods
    THEN Raise("AttributeError", <<"'str' object has no attribute", method>>)
    ELSE IF method = "lstrip" THEN Return(LStrip(s, {a[k] : k \in DOMAIN a}))
    ELSE IF method = "lower" THEN Return(Lower(s))
    ELSE Return(s)

-----------------------------------------------------------------------------
(* The extension registries.                                               *)

S_pdb == <<"p", "d", "b">>
S_prmtop == <<"p", "r", "m", "t", "o", "p">>
S_top == <<"t", "o", "p">>
S_psf == <<"p", "s", "f">>
S_coor == <<"c", "o", "o", "r">>
S_inpcrd == <<"i", "n", "p", "c", "r", "d">>
S_crd == <<"c", "r", "d">>
S_vel == <<"v", "e", "l">>
S_xsc == <<"x", "s", "c">>
S_xml == <<"x", "m", "l">>
S_rst == <<"r", "s", "t">>
S_restart == <<"r", "e", "s", "t", "a", "r", "t">>

Families == {"SystemHandler", "Positions", "Velocities", "BoxVectors", "Restart"}

SystemHandler_loaders ==
    (S_pdb :> "from_pdb") @@ (S_prmtop :> "from_prmtop") @@
    (S_top :> "from_prmtop") @@ (S_psf :> "from_psf")

Positions_loaders ==
    (S_pdb :> "from_pdb") @@ (S_coor :> "from_coor") @@
    (S_inpcrd :> "from_inpcrd") @@ (S_crd :> "from_inpcrd")

Velocities_loaders == (S_vel :> "from_vel")

BoxVectors_loaders == (S_xsc :> "from_xsc")

Restart_loaders ==
    (S_xml :> "from_xml") @@ (S_rst :> "from_rst") @@ (S_restart :> "from_rst")

Table(cls) ==
    CASE cls = "SystemHandler" -> SystemHandler_loaders
      [] cls = "Positions" -> Positions_loaders
      [] cls = "Velocities" -> Velocities_loaders
      [] cls = "BoxVectors" -> BoxVectors_loaders
      [] cls = "Restart" -> Restart_loaders

\* cls._loaders(ext): the dict lookup {...}[ext], KeyError when ext is no key.
Loaders(cls, key) ==
    IF key \in DOMAIN Table(cls)
    THEN Return(Table(cls)[key])
    ELSE Raise("KeyError", <<key>>)

-----------------------------------------------------------------------------
(* BoxVectors.from_xsc.                                                    *)

\* A file is what the file system holds at a path: whether it can be opened,
\* its lines (each line the tokens line.split() yields), and what the external
\* parsers find in it (velocities, a box).
File(exists, hasvels, hasbox, lines) ==
    [exists |-> exists, hasvels |-> hasvels, hasbox |-> hasbox, lines |-> lines]

\* float(token), in tenths; a token outside the domain makes float raise.
FloatOf ==
    [t \in {"0", "10.0", "20.0", "30.0"} |->
        CASE t = "0" -> 0 [] t = "10.0" -> 100 [] t = "20.0" -> 200 [] t = "30.0" -> 300]

Quantity(value, unit) ==
    [type |-> "Quantity", attrs |-> {}, unit |-> unit, value |-> value]

\* Position of the field called f among the namedtuple's fields, 0 if none.
FieldIndex(fields, f) ==
    IF \E k \in DOMAIN fields : fields[k] = f
    THEN CHOOSE k \in DOMAIN fields : fields[k] = f
    ELSE 0

\* A from_xsc that takes a_x, b_y and c_z from fixed columns of the value line.
from_xsc_FixedColumns(p, f) ==
    IF ~f.exists THEN Raise("IOError", <<"No such file or directory", p>>)
    ELSE IF Len(f.lines) < 3 THEN Raise("IndexError", <<"list index out of range">>)
    ELSE LET vals == f.lines[3] IN
         IF \E k \in DOMAIN vals : vals[k] \notin DOMAIN FloatOf
         THEN Raise("ValueError", <<"could not convert string to float">>)
         ELSE IF Len(vals) < 4
         THEN Raise("IndexError", <<"list index out of range">>)
         ELSE Return(Quantity(<<<<FloatOf[vals[2]], 0, 0>>,
                                <<0, FloatOf[vals[3]], 0>>,
                                <<0, 0, FloatOf[vals[4]]>>>>, "angstroms"))

\* parse(path) builds a namedtuple whose fields are the header's tokens after
\* the first and whose values are the floats of the value line, in order; the
\* result is the diagonal matrix of its a_x, b_y and c_z.
from_xsc(p, f) ==
    IF ~f.exists THEN Raise("IOError", <<"No such file or directory", p>>)
    ELSE IF Len(f.lines) < 2 THEN Raise("IndexError", <<"list index out of range">>)
    ELSE LET fields == IF f.lines[2] = <<>> THEN <<>> ELSE Tail(f.lines[2]) IN
         IF \E j, k \in DOMAIN fields : j # k /\ fields[j] = fields[k]
         THEN Raise("ValueError", <<"Encountered duplicate field name">>)
         ELSE IF Len(f.lines) < 3
         THEN Raise("IndexError", <<"list index out of range">>)
         ELSE LET vals == f.lines[3] IN
              IF \E k \in DOMAIN vals : vals[k] \notin DOMAIN FloatOf
              THEN Raise("ValueError", <<"could not convert string to float">>)
              ELSE IF Len(vals) # Len(fields)
              THEN Raise("TypeError", <<"__new__() takes a different number of arguments">>)
              ELSE IF \E g \in {"a_x", "b_y", "c_z"} : FieldIndex(fields, g) = 0
              THEN Raise("AttributeError", <<"'NamedXsc' object has no attribute">>)
              ELSE Return(Quantity(
                       <<<<FloatOf[vals[FieldIndex(fields, "a_x")]], 0, 0>>,
                         <<0, FloatOf[vals[FieldIndex(fields, "b_y")]], 0>>,
                         <<0, 0, FloatOf[vals[FieldIndex(fields, "c_z")]]>>>>,
                       "angstroms"))

-----------------------------------------------------------------------------
(* The format handlers.                                                    *)

\* The keyword options of a call: each of forcefields and charmm_parameters
\* is "absent" (not passed, so the default None), "empty" (an empty list) or
\* "files" (a list of paths).
Passed(kwargs) == {k \in {"forcefields", "charmm_parameters"} : kwargs[k] # "absent"}

\* Calling a handler with a keyword it does not declare.
Unexpected == <<"got an unexpected keyword argument">>

NoSuchFile(p) == <<"No such file or directory", p>>

PDB(attrs) == PyObj("PDBFile", attrs)
Prmtop == PyObj("AmberPrmtopFile", {})
PSF(attrs) == PyObj("CharmmPsfFile", attrs)

Opt(present) == IF present THEN QuantityObj ELSE PyNone

SystemHandler_from_pdb(p, kwargs, f) ==
    IF Passed(kwargs) \ {"forcefields"} # {} THEN Raise("TypeError", Unexpected)
    ELSE IF ~f.exists THEN Raise("IOError", NoSuchFile(p))
    ELSE New("SystemHandler", PDB({"forcefield"}),
             Kw(TopologyObj, QuantityObj, Opt(f.hasvels), Opt(f.hasbox)))

SystemHandler_from_prmtop(p, kwargs, f) ==
    IF Passed(kwargs) # {} THEN Raise("TypeError", Unexpected)
    ELSE IF ~f.exists THEN Raise("IOError", NoSuchFile(p))
    ELSE New("SystemHandler", Prmtop, Kw(TopologyObj, PyNone, PyNone, PyNone))

SystemHandler_from_psf(p, kwargs, f) ==
    IF Passed(kwargs) \ {"charmm_parameters"} # {} THEN Raise("TypeError", Unexpected)
    ELSE IF ~f.exists THEN Raise("IOError", NoSuchFile(p))
    ELSE IF kwargs.charmm_parameters = "absent"
    THEN Raise("ValueError", <<"ERROR: PSF files require charmm_parameters">>)
    ELSE New("SystemHandler", PSF({"parmset"}), Kw(TopologyObj, PyNone, PyNone, PyNone))

\* Positions.from_pdb, from_coor, from_inpcrd and Velocities.from_vel: the
\* external reader's array as a Quantity.
QuantityReader(p, kwargs, f) ==
    IF Passed(kwargs) # {} THEN Raise("TypeError", Unexpected)
    ELSE IF ~f.exists THEN Raise("IOError", NoSuchFile(p))
    ELSE Return(QuantityObj)

BoxVectors_from_xsc(p, kwargs, f) ==
    IF Passed(kwargs) # {} THEN Raise("TypeError", Unexpected)
    ELSE from_xsc(p, f)

Restart_from_xml(p, kwargs, f) ==
    IF Passed(kwargs) # {} THEN Raise("TypeError", Unexpected)
    ELSE IF ~f.exists THEN Raise("IOError", NoSuchFile(p))
    ELSE New("Restart", NoValue, Kw(PyNone, QuantityObj, Opt(f.hasvels), Opt(f.hasbox)))

Restart_from_rst(p, kwargs, f) ==
    IF Passed(kwargs) # {} THEN Raise("TypeError", Unexpected)
    ELSE IF ~f.exists THEN Raise("IOError", NoSuchFile(p))
    ELSE New("Restart", NoValue, Kw(PyNone, QuantityObj, Opt(f.hasvels), Opt(f.hasbox)))

\* The handler h of family cls, called with the path and the options.
Handler(cls, h, p, kwargs, f) ==
    CASE cls = "SystemHandler" /\ h = "from_pdb" -> SystemHandler_from_pdb(p, kwargs, f)
      [] cls = "SystemHandler" /\ h = "from_prmtop" -> SystemHandler_from_prmtop(p, kwargs, f)
      [] cls = "SystemHandler" /\ h = "from_psf" -> SystemHandler_from_psf(p, kwargs, f)
      [] cls = "BoxVectors" /\ h = "from_xsc" -> BoxVectors_from_xsc(p, kwargs, f)
      [] cls = "Restart" /\ h = "from_xml" -> Restart_from_xml(p, kwargs, f)
      [] cls = "Restart" /\ h = "from_rst" -> Restart_from_rst(p, kwargs, f)
      [] OTHER -> QuantityReader(p, kwargs, f)

HandlersOf(cls) == {Table(cls)[k] : k \in DOMAIN Table(cls)}

-----------------------------------------------------------------------------
(* MultiFormatLoader.load.                                                 *)

\* What load adds to an outcome: the key it looked up and the handler it called.
Traced(r, key, h) == [exc |-> r.exc, msg |-> r.msg, val |-> r.val, key |-> key, handler |-> h]

NoKey == <<"<no lookup>">>

\* The handler the lookup l found, called with the path and the options.
Invoke(cls, key, l, p, kwargs, f) ==
    IF l.exc # "none" THEN Traced(l, key, "none")
    ELSE Traced(Handler(cls, l.val, p, kwargs, f), key, l.val)

\* cls._loaders(key)(path, **kwargs), key being the outcome of ext.lsplit('.').
Lookup(cls, key, p, kwargs, f) ==
    IF key.exc # "none" THEN Traced(key, NoKey, "none")
    ELSE Invoke(cls, key.val, Loaders(cls, key.val), p, kwargs, f)

\* The try block: cls._loaders(ext.lsplit('.'))(path, **kwargs).
load_try(cls, p, kwargs, f) ==
    Lookup(cls, StrCall(splitext(p)[2], "lsplit", <<".">>), p, kwargs, f)

\* The except clauses: KeyError becomes NotImplementedError, IOError is raised
\* again naming the path, anything else passes through.
load_except(r, p) ==
    IF r.exc = "KeyError"
    THEN Traced(Raise("NotImplementedError",
                      <<"Unknown loader for format", splitext(p)[2]>>), r.key, r.handler)
    ELSE IF r.exc = "IOError"
    THEN Traced(Raise("IOError", <<"Could not access file", p>>), r.key, r.handler)
    ELSE r

\* load(cls, path, **kwargs)
load(cls, p, kwargs, f) == load_except(load_try(cls, p, kwargs, f), p)

-----------------------------------------------------------------------------
(* assert_not_exists.                                                      *)

Digit == <<"0", "1", "2", "3", "4", "5", "6", "7", "8", "9">>

\* str(n) for n >= 0
RECURSIVE Str(_)
Str(n) == IF n < 10 THEN <<Digit[n + 1]>> ELSE Str(n \div 10) \o <<Digit[(n % 10) + 1]>>

\* '{}.{}{}'.format(n, k, e)
Format(n, k, e) == n \o <<".">> \o Str(k) \o e

\* A candidate that puts the counter into the candidate tried before.
Candidate_FromCurrent(cur, n, k, e) ==
    Format(splitext(cur)[1], k, splitext(cur)[2])

\* The loop body's new path: the counter goes between the original name and ext.
Candidate(cur, n, k, e) == Format(n, k, e)

-----------------------------------------------------------------------------
(* The inputs the model draws from.                                        *)

SeqsUpTo(S, n) == UNION {[1..k -> S] : k \in 0..n}

Values == {PyNone, TopologyObj, QuantityObj}

Masters == {PyNone, PDB({}), PDB({"forcefield"}), Prmtop, PSF({}), PSF({"parmset"}), StrObj}

ContainerClasses == {"InputContainer", "SystemHandler", "Restart"}

KwArgs == [forcefields : {"absent", "files"}, charmm_parameters : {"absent", "empty", "files"}]

NoKwArgs == [forcefields |-> "absent", charmm_parameters |-> "absent"]

LoadPaths ==
    {<<"s", ".", "p", "d", "b">>,
     <<"s", ".", "P", "D", "B">>,
     <<"s", ".", "p", "r", "m", "t", "o", "p">>,
     <<"s", ".", "t", "o", "p">>,
     <<"s", ".", "p", "s", "f">>,
     <<"s", ".", "c", "o", "o", "r">>,
     <<"s", ".", "i", "n", "p", "c", "r", "d">>,
     <<"s", ".", "c", "r", "d">>,
     <<"s", ".", "v", "e", "l">>,
     <<"s", ".", "x", "s", "c">>,
     <<"s", ".", "X", "S", "C">>,
     <<"s", ".", "x", "m", "l">>,
     <<"s", ".", "r", "s", "t">>,
     <<"s", ".", "r", "e", "s", "t", "a", "r", "t">>,
     <<"s", ".", "t", "x", "t">>,
     <<"s">>,
     <<".", "p", "d", "b">>}

\* The record of the specification's example: a comment line, the header
\* (#$LABELS, then the field names) and the value line.
ExampleLines ==
    <<<<"#", "NAMD", "extended", "system", "configuration">>,
      <<"#$LABELS", "step", "a_x", "b_y", "c_z">>,
      <<"0", "10.0", "20.0", "30.0">>>>

ShortLines == <<<<"#", "NAMD", "extended", "system", "configuration">>>>

Files ==
    {File(e, v, b, ExampleLines) : e \in BOOLEAN, v \in BOOLEAN, b \in BOOLEAN}
        \cup {File(TRUE, FALSE, FALSE, ShortLines)}

FieldNames == {"step", "a_x", "b_y", "c_z"}

ValueTokens == {"0", "10.0", "20.0", "30.0"}

\* A file of three lines: a comment, the header naming the fields h, the values v.
XscRecord(h, v) == File(TRUE, FALSE, FALSE, <<ExampleLines[1], <<"#$LABELS">> \o h, v>>)

\* Files that are no well-formed record: missing, cut short, not numeric.
OddXscFiles ==
    {File(FALSE, FALSE, FALSE, ExampleLines),
     File(TRUE, FALSE, FALSE, ShortLines),
     File(TRUE, FALSE, FALSE, <<ExampleLines[1], ExampleLines[2]>>),
     File(TRUE, FALSE, FALSE, <<ExampleLines[1], ExampleLines[2], <<"0", "ten", "20.0", "30.0">>>>)}

XscPath == <<"s", ".", "x", "s", "c">>

AnePaths == {<<"f", ".", "t">>, <<"f">>, <<".", "f">>, <<"d", ".", "x", "/", "f">>, <<"f", ".", "1", ".", "t">>}

\* The paths that may exist when assert_not_exists(a) is called: a itself,
\* its numbered candidates, and two names that look like them.
Universe(a) ==
    LET n == splitext(a)[1]
        e == splitext(a)[2]
    IN {a} \cup {Format(n, k, e) : k \in 1..MaxCounter}
           \cup {Format(Format(n, 1, <<>>), 1, e), a \o <<".", "1">>}

-----------------------------------------------------------------------------
(* The state machine.                                                      *)

Pending == [exc |-> "pending", msg |-> <<>>, val |-> NoValue]

\* What the caller holds after a call that may have produced a container.
Held(r) == IF r.exc = "none" /\ "cls" \in DOMAIN r.val THEN r.val ELSE obj

Call(op, cls, h, p, kwargs, f, master, kw, field, value, self, out) ==
    [op |-> op, cls |-> cls, h |-> h, path |-> p, kwargs |-> kwargs, file |-> f,
     master |-> master, kw |-> kw, field |-> field, value |-> value,
     self |-> self, out |-> out]

NoFile == File(FALSE, FALSE, FALSE, <<>>)
NoKw == Kw(NoValue, NoValue, NoValue, NoValue)

NoCall == Call("init", "-", "-", <<>>, NoKwArgs, NoFile, NoValue, NoKw, "-", NoValue,
               NoObj, Pending)

IdleIO == obj = NoObj /\ call = NoCall
IdleXsc == xsc = [file |-> NoFile, out |-> Pending]
IdleAne ==
    /\ files = {} /\ arg = <<>> /\ path = <<>> /\ name = <<>> /\ ext = <<>>
    /\ i = 0 /\ pc = "idle"

ioVars == <<obj, call>>
aneVars == <<files, arg, path, name, ext, i, pc>>

\* The call ends as r: it is recorded, and a container it returned is held.
Ended(c, r) ==
    /\ call' = [c EXCEPT !.out = r]
    /\ obj' = Held(r)

\* cls(master=master, topology=..., positions=..., velocities=..., box=...)
Construct(cls, master, kw) ==
    /\ obj = NoObj
    /\ Ended(Call("new", cls, "-", <<>>, NoKwArgs, NoFile, master, kw, "-", NoValue,
                  obj, Pending),
             New(cls, master, kw))
    /\ UNCHANGED <<xsc, aneVars>>

\* The setter ended as r: the call is recorded and obj is as the setter left it.
Assigned(c, r) ==
    /\ call' = [c EXCEPT !.out = [exc |-> r.exc, msg |-> r.msg, val |-> NoValue]]
    /\ obj' = r.self

\* obj.<field> = value
Assign(field, value) ==
    /\ obj # NoObj
    /\ Assigned(Call("set", obj.cls, "-", <<>>, NoKwArgs, NoFile, NoValue, NoKw,
                     field, value, obj, Pending),
                SetField(obj, field, value))
    /\ UNCHANGED <<xsc, aneVars>>

\* obj.create_system()
CreateSystem ==
    /\ obj # NoObj
    /\ obj.cls = "SystemHandler"
    /\ call' = Call("create_system", obj.cls, "-", <<>>, NoKwArgs, NoFile, NoValue,
                    NoKw, "-", NoValue, obj, create_system(obj))
    /\ UNCHANGED <<obj, xsc, aneVars>>

Init == IdleIO /\ IdleXsc /\ IdleAne

Next ==
    \/ \E cls \in ContainerClasses, t, p, v, b \in Values :
         \E master \in (IF cls = "SystemHandler" THEN Masters ELSE {NoValue}) :
            Construct(cls, master, Kw(t, p, v, b))
    \/ \E field \in {Fields[k] : k \in DOMAIN Fields}, value \in Values :
         Assign(field, value)
    \/ CreateSystem

Spec == Init /\ [][Next]_vars

\* One call of a loader: cls.load(p, **kwargs), or the handler itself.
InitLoad ==
    /\ IdleXsc /\ IdleAne
    /\ obj = NoObj
    /\ \E cls \in Families, p \in LoadPaths, kwargs \in KwArgs, f \in Files :
         call = Call("pending", cls, "-", p, kwargs, f, NoValue, NoKw, "-", NoValue,
                     NoObj, Pending)

\* cls.load(path, **kwargs)
Load ==
    /\ call.op = "pending"
    /\ Ended([call EXCEPT !.op = "load"],
             load(call.cls, call.path, call.kwargs, call.file))
    /\ UNCHANGED <<xsc, aneVars>>

\* cls.<h>(path, **kwargs), called directly
CallHandler(h) ==
    /\ call.op = "pending"
    /\ Ended([call EXCEPT !.op = "handler", !.h = h],
             Traced(Handler(call.cls, h, call.path, call.kwargs, call.file), NoKey, h))
    /\ UNCHANGED <<xsc, aneVars>>

NextLoad ==
    \/ Load
    \/ \E h \in HandlersOf(call.cls) : CallHandler(h)

SpecLoad == InitLoad /\ [][NextLoad]_vars

\* BoxVectors.from_xsc on one file.
InitXsc ==
    /\ IdleIO /\ IdleAne
    /\ \/ \E h \in SeqsUpTo(FieldNames, MaxFields), v \in SeqsUpTo(ValueTokens, MaxFields) :
            xsc = [file |-> XscRecord(h, v), out |-> Pending]
       \/ \E f \in OddXscFiles :
            xsc = [file |-> f, out |-> Pending]

FromXsc ==
    /\ xsc.out = Pending
    /\ xsc' = [xsc EXCEPT !.out = from_xsc(XscPath, xsc.file)]
    /\ UNCHANGED <<ioVars, aneVars>>

NextXsc == FromXsc

SpecXsc == InitXsc /\ [][NextXsc]_vars

\* assert_not_exists(arg) on one file system.
InitAne ==
    /\ IdleIO /\ IdleXsc
    /\ arg \in AnePaths
    /\ files \in SUBSET Universe(arg)
    /\ path = arg
    /\ name = <<>> /\ ext = <<>> /\ i = 0
    /\ pc = "splitext"

\* name, ext = os.path.splitext(path); i = 1
AneSplit ==
    /\ pc = "splitext"
    /\ name' = splitext(path)[1]
    /\ ext' = splitext(path)[2]
    /\ i' = 1
    /\ pc' = "while"
    /\ UNCHANGED <<ioVars, xsc, files, arg, path>>

\* while os.path.exists(path): path = '{}.{}{}'.format(name, i, ext); i += 1
AneLoop ==
    /\ pc = "while"
    /\ path \in files
    /\ path' = Candidate(path, name, i, ext)
    /\ i' = i + 1
    /\ UNCHANGED <<ioVars, xsc, files, arg, name, ext, pc>>

\* return path
AneReturn ==
    /\ pc = "while"
    /\ path \notin files
    /\ pc' = "done"
    /\ UNCHANGED <<ioVars, xsc, files, arg, path, name, ext, i>>

NextAne == AneSplit \/ AneLoop \/ AneReturn

\* The function runs on one thread with nothing to wait for: a step that can
\* be taken is taken.
SpecAne == InitAne /\ [][NextAne]_vars /\ WF_vars(NextAne)

-----------------------------------------------------------------------------
(* The claims.                                                             *)

\* The extension of the last call's path as the registry spells its keys.
StrippedExt == LStrip(splitext(call.path)[2], {"."})

AfterLoad == call.op = "load"

AfterHandler(cls, h) == call.op = "handler" /\ call.cls = cls /\ call.h = h

\* C1: load on a path whose extension is in the family's table invokes the
\* table's handler for it with the path and the options; on any other path it
\* raises NotImplementedError (UnsupportedFormat) and nothing else.
C1_LoadDispatchesOrUnsupported ==
    AfterLoad =>
        /\ StrippedExt \in DOMAIN Table(call.cls) =>
               call.out.handler = Table(call.cls)[StrippedExt]
        /\ Lower(StrippedExt) \notin DOMAIN Table(call.cls) =>
               call.out.exc = "NotImplementedError"

\* C2: the key load looks up is the path's extension in lower case without
\* its leading dot, so two spellings that differ in case select one handler.
C2_KeyIsLoweredExtension ==
    AfterLoad =>
        /\ call.out.key = Lower(StrippedExt)
        /\ Lower(StrippedExt) \in DOMAIN Table(call.cls) =>
               call.out.handler = Table(call.cls)[Lower(StrippedExt)]

\* The type a field is documented to hold.
Expected(field) == IF field = "topology" THEN TopologyObj ELSE QuantityObj

\* C3: an assignment to a container field is accepted exactly when the value
\* is of the field's type or None, so a container can be built with every
\* field left None; a rejected assignment raises TypeError and changes nothing.
C3_AcceptsExpectedTypeOrNone ==
    /\ call.op = "set" =>
           /\ call.out.exc = "none" <=> call.value \in {PyNone, Expected(call.field)}
           /\ call.out.exc # "none" => call.out.exc = "TypeError" /\ obj = call.self
    /\ call.op = "new" /\ call.kw = Kw(PyNone, PyNone, PyNone, PyNone) =>
           call.out.exc = "none"

\* C4: Restart.from_rst on a readable file that lacks velocities or a box
\* returns a container with positions set and each lacking field None.
C4_RstWithoutVelocitiesOrBox ==
    /\ AfterHandler("Restart", "from_rst")
    /\ call.kwargs = NoKwArgs
    /\ call.file.exists
    /\ ~call.file.hasvels \/ ~call.file.hasbox
    => /\ call.out.exc = "none"
       /\ call.out.val.positions = QuantityObj
       /\ call.out.val.velocities = Opt(call.file.hasvels)
       /\ call.out.val.box = Opt(call.file.hasbox)

\* C5: create_system raises the "unusable instance" error when the master is
\* None, the "unsupported configuration" error when the master is a PDB handle
\* without a force field or a PSF handle without a parameter set, and otherwise,
\* for a PDB, prmtop or PSF master, returns what the attached context creates.
C5_CreateSystemOutcome ==
    call.op = "create_system" =>
        LET m == call.self.master
            r == call.out
        IN /\ m = PyNone => r.exc = "ValueError" /\ r.msg = Unusable
           /\ m = PDB({}) => r.exc = "ValueError" /\ r.msg = NoForcefield
           /\ m = PSF({}) => r.exc = "ValueError" /\ r.msg = NoParmset
           /\ m = PDB({"forcefield"}) =>
                  r = Return(System("master.forcefield.createSystem"))
           /\ m = Prmtop => r = Return(System("master.createSystem"))
           /\ m = PSF({"parmset"}) =>
                  r = Return(System("master.createSystem(parmset)"))

\* create_system was called on a container without a master and refused.
C5_Witness ==
    /\ call.op = "create_system"
    /\ call.self.master = PyNone
    /\ call.out.exc = "ValueError"

\* C6: SystemHandler.from_psf without parameter files raises ValueError and
\* returns nothing; with parameter files it returns a container whose topology
\* is the PSF's and whose master carries the parameter set.
C6_PsfNeedsParameters ==
    /\ AfterHandler("SystemHandler", "from_psf")
    /\ call.kwargs.forcefields = "absent"
    /\ call.file.exists
    => /\ call.kwargs.charmm_parameters = "absent" =>
              call.out.exc = "ValueError" /\ call.out.val = NoValue
       /\ call.kwargs.charmm_parameters = "files" =>
              /\ call.out.exc = "none"
              /\ call.out.val.topology = TopologyObj
              /\ call.out.val.master = PSF({"parmset"})

\* The name assert_not_exists(arg) is to return: arg when it is free, otherwise
\* the candidate with the smallest counter k >= 1 that is free.
FirstFree(p) ==
    \/ arg \notin files /\ p = arg
    \/ /\ arg \in files
       /\ \E k \in 1..(MaxCounter + 1) :
            /\ p = splitext(arg)[1] \o <<".">> \o Str(k) \o splitext(arg)[2]
            /\ \A j \in 1..(k - 1) :
                 splitext(arg)[1] \o <<".">> \o Str(j) \o splitext(arg)[2] \in files

\* C7: assert_not_exists terminates, and the path it returns does not exist
\* and is the argument itself or the argument's name, the smallest free
\* counter k >= 1 and the argument's extension.
C7_ReturnsFirstFreeName ==
    /\ [](pc = "done" => path \notin files /\ FirstFree(path))
    /\ <>(pc = "done")

\* file.txt and file.1.txt exist, and file.2.txt was returned.
C7_Witness ==
    /\ pc = "done"
    /\ arg \in files
    /\ splitext(arg)[1] \o <<".", "1">> \o splitext(arg)[2] \in files
    /\ path = splitext(arg)[1] \o <<".", "2">> \o splitext(arg)[2]

\* The extension of the last call's path is one the family supports.
Supported == Lower(StrippedExt) \in DOMAIN Table(call.cls)

\* C8: load on a supported extension whose file cannot be read raises an
\* IOError that names the path; an unsupported extension is never reported as
\* an IOError, nor an unreadable file as NotImplementedError.
C8_UnreadableFileIsIOError ==
    AfterLoad /\ call.kwargs = NoKwArgs =>
        /\ Supported /\ ~call.file.exists =>
               /\ call.out.exc = "IOError"
               /\ call.out.msg = <<"Could not access file", call.path>>
        /\ Supported => call.out.exc # "NotImplementedError"
        /\ ~Supported => call.out.exc # "IOError"

\* Every field of the container v is one its setter's validation accepts.
Validated(v) ==
    /\ "cls" \in DOMAIN v
    /\ \A k \in DOMAIN Fields : validate(v[Fields[k]], FieldTypes[Fields[k]]).exc = "none"

\* C9: a call of a container-producing loader (through load or on the handler)
\* either returns a container all of whose fields passed validation, or raises
\* and hands the caller no container at all.
C9_ContainerOrNothing ==
    call.op \in {"load", "handler"} /\ call.cls \in {"SystemHandler", "Restart"} =>
        \/ call.out.exc = "none" /\ Validated(call.out.val)
        \/ call.out.exc # "none" /\ call.out.val = NoValue /\ obj = NoObj

\* load was called on a readable file of a supported extension of a
\* container-producing family, raised, and left the caller no container.
C9_Witness ==
    /\ AfterLoad
    /\ call.cls \in {"SystemHandler", "Restart"}
    /\ Supported
    /\ call.file.exists
    /\ call.out.exc # "none"
    /\ call.out.val = NoValue
    /\ obj = NoObj

Diagonal(x, y, z) == <<<<x, 0, 0>>, <<0, y, 0>>, <<0, 0, z>>>>

\* C10: when from_xsc returns, the result is in angstroms and is the diagonal
\* matrix of the values that stand in the value line where a_x, b_y and c_z
\* stand among the header's fields; the example record gives diag(10, 20, 30).
C10_XscDiagonalOfNamedFields ==
    /\ xsc.out.exc = "none" =>
           LET fields == Tail(xsc.file.lines[2])
               vals == xsc.file.lines[3]
           IN /\ xsc.out.val.unit = "angstroms"
              /\ \E a, b, c \in DOMAIN fields :
                   /\ fields[a] = "a_x" /\ fields[b] = "b_y" /\ fields[c] = "c_z"
                   /\ xsc.out.val.value =
                          Diagonal(FloatOf[vals[a]], FloatOf[vals[b]], FloatOf[vals[c]])
    /\ xsc.file = File(TRUE, FALSE, FALSE, ExampleLines) /\ xsc.out # Pending =>
           xsc.out = Return(Quantity(Diagonal(100, 200, 300), "angstroms"))

\* The example record was read and gave diag(10.0, 20.0, 30.0).
C10_Witness ==
    /\ xsc.file.lines = ExampleLines
    /\ xsc.out = Return(Quantity(Diagonal(100, 200, 300), "angstroms"))

====
